---- MODULE Spec2Model ----
(***************************************************************************)
(* Apple Notes MCP server (src/src/apple_notes_mcp/server.py).             *)
(*                                                                         *)
(* call_tool renders an automation script from a template and the request  *)
(* parameters, runs it with osascript as a blocking child process and maps *)
(* the child's exit status and output to one text content block.           *)
(*                                                                         *)
(* Text is a sequence of chunks.  The chunks with a meaning for the two    *)
(* script dialects (double quote, single quote, backslash, space, the      *)
(* comment mark, line end) are single characters; every other chunk is a   *)
(* run of ordinary characters (a letter of a parameter, or a fragment of a *)
(* template).                                                              *)
(***************************************************************************)
EXTENDS Naturals, Sequences, FiniteSets, TLC

DQ == "\""
BS == "\\"
SQ == "'"
SP == " "
HASH == "#"
NL == "\n"

\* ------------------------------------------------------------------------
\* Bounds of the model
\* ------------------------------------------------------------------------

\* notes the Notes application holds at most (create_note is not offered beyond)
MaxNotes == 2
\* invocations received and waiting for the event loop
MaxPending == 1

\* ------------------------------------------------------------------------
\* Python string operations used by call_tool
\* ------------------------------------------------------------------------

RECURSIVE EscapeQuotes(_)
\* s.replace('"', '\\"')
EscapeQuotes(s) ==
    IF s = <<>> THEN <<>>
    ELSE (IF Head(s) = DQ THEN <<BS, DQ>> ELSE <<Head(s)>>) \o EscapeQuotes(Tail(s))

LowerChunk(c) ==
    CASE c = "A" -> "a"
      [] c = "B" -> "b"
      [] c = "X" -> "x"
      [] OTHER -> c

\* query.lower()
Lower(s) == [i \in 1..Len(s) |-> LowerChunk(s[i])]

IsSpace(c) == c \in {SP, NL}

RECURSIVE StripLeft(_)
StripLeft(s) ==
    IF s # <<>> /\ IsSpace(Head(s)) THEN StripLeft(Tail(s)) ELSE s

RECURSIVE StripRight(_)
StripRight(s) ==
    IF s # <<>> /\ IsSpace(s[Len(s)]) THEN StripRight(SubSeq(s, 1, Len(s) - 1)) ELSE s

\* result.stdout.strip()
Strip(s) == StripRight(StripLeft(s))

\* ------------------------------------------------------------------------
\* Script templates (the f-strings of call_tool)
\* ------------------------------------------------------------------------

AppleScript == "AppleScript"
JXA == "JavaScript"

TellNotes == <<"tell application ", DQ, "Notes", DQ, NL>>

ScriptList ==
    TellNotes \o
    <<"set notesList to {}", NL,
      "set allNotes to every note", NL,
      "repeat with aNote in allNotes", NL,
      "set noteInfo to {|name|:name of aNote, |folder|:name of container of aNote}", NL,
      "set end of notesList to noteInfo", NL,
      "end repeat", NL,
      "return notesList", NL, "end tell">>

ScriptSearch(query) ==
    <<"const notes = Application(", SQ, "Notes", SQ, ");", NL,
      "for (let note of notes.notes()) {", NL,
      "if (name.toLowerCase().includes(", SQ>> \o Lower(query) \o <<SQ, ") ||", NL,
      "body.toLowerCase().includes(", SQ>> \o Lower(query) \o <<SQ, ")) {", NL,
      "results.push({name, folder, preview: body.substring(0, 200)}); } }", NL,
      "JSON.stringify(results);">>

ScriptRead(note_name) ==
    TellNotes \o
    <<"set matchingNotes to (every note whose name is ", DQ>> \o note_name \o <<DQ, ")", NL,
      "if (count of matchingNotes) > 0 then", NL,
      "set theNote to item 1 of matchingNotes", NL,
      "return body of theNote", NL,
      "else", NL,
      "return ", DQ, "Note not found", DQ, NL,
      "end if", NL, "end tell">>

ScriptCreate(note_name, note_body, folder_name) ==
    TellNotes \o
    <<"tell account ", DQ, "iCloud", DQ, NL,
      "set targetFolder to folder ", DQ>> \o folder_name \o <<DQ, NL,
      "set newNote to make new note at targetFolder with properties {name:", DQ>>
      \o EscapeQuotes(note_name) \o <<DQ, ", body:", DQ>>
      \o EscapeQuotes(note_body) \o <<DQ, "}", NL,
      "return name of newNote", NL, "end tell", NL, "end tell">>

ScriptEdit(note_name, note_body) ==
    TellNotes \o
    <<"set matchingNotes to (every note whose name is ", DQ>> \o note_name \o <<DQ, ")", NL,
      "if (count of matchingNotes) > 0 then", NL,
      "set theNote to item 1 of matchingNotes", NL,
      "set body of theNote to ", DQ>> \o EscapeQuotes(note_body) \o <<DQ, NL,
      "return ", DQ, "Note updated: ", DQ, " & name of theNote", NL,
      "else", NL,
      "return ", DQ, "Note not found", DQ, NL,
      "end if", NL, "end tell">>

\* ------------------------------------------------------------------------
\* osascript: lexing of a rendered script
\* ------------------------------------------------------------------------

\* the character that opens and closes a string literal of the template
Quote(lang) == IF lang = JXA THEN SQ ELSE DQ

Tok(c) == [k |-> "tok", v |-> <<c>>]
Lit(s) == [k |-> "lit", v |-> s]

RECURSIVE LexFrom(_, _, _, _, _, _)
\* The lexemes of toks[i..]: template fragments, and string literals with
\* their escapes resolved.  ok is FALSE for a script that does not compile
\* (a literal left open, an escape the dialect does not know, a line end
\* inside a JavaScript literal).
LexFrom(lang, toks, i, mode, lit, out) ==
    IF i > Len(toks)
    THEN [ok |-> mode # "str", out |-> out]
    ELSE LET c == toks[i] IN
         CASE mode = "code" ->
                IF c = Quote(lang) THEN LexFrom(lang, toks, i + 1, "str", <<>>, out)
                ELSE IF c = HASH /\ lang = AppleScript
                     THEN LexFrom(lang, toks, i + 1, "comment", lit, out)
                ELSE IF c = SP THEN LexFrom(lang, toks, i + 1, mode, lit, out)
                ELSE LexFrom(lang, toks, i + 1, mode, lit, Append(out, Tok(c)))
           [] mode = "comment" ->
                IF c = NL THEN LexFrom(lang, toks, i + 1, "code", lit, Append(out, Tok(c)))
                ELSE LexFrom(lang, toks, i + 1, mode, lit, out)
           [] OTHER ->
                IF c = Quote(lang) THEN LexFrom(lang, toks, i + 1, "code", <<>>, Append(out, Lit(lit)))
                ELSE IF c = BS
                     THEN IF i + 1 > Len(toks) THEN [ok |-> FALSE, out |-> out]
                          ELSE IF toks[i + 1] \in {Quote(lang), BS} \/ (lang = JXA /\ toks[i + 1] # NL)
                               THEN LexFrom(lang, toks, i + 2, mode, Append(lit, toks[i + 1]), out)
                               ELSE [ok |-> FALSE, out |-> out]
                ELSE IF c = NL /\ lang = JXA THEN [ok |-> FALSE, out |-> out]
                ELSE LexFrom(lang, toks, i + 1, mode, Append(lit, c), out)

Lex(lang, toks) == LexFrom(lang, toks, 1, "code", <<>>, <<>>)

\* the statements of a script: its lexemes with every literal's value left out
Skeleton(lx) == [i \in 1..Len(lx) |-> IF lx[i].k = "lit" THEN "<string>" ELSE lx[i].v[1]]

IsLit(e) == e.k = "lit"

\* the values of the string literals of a script, in order
Literals(lx) == LET ls == SelectSeq(lx, IsLit) IN [i \in 1..Len(ls) |-> ls[i].v]

Plain == <<"p">>

SkelOf(lang, toks) == Skeleton(Lex(lang, toks).out)

\* which of the five programs a compiled script is; "invalid" when it is none
Program(lang, toks) ==
    LET lx == Lex(lang, toks)
        sk == Skeleton(lx.out)
    IN  IF ~lx.ok THEN "invalid"
        ELSE IF lang = JXA
             THEN IF sk = SkelOf(JXA, ScriptSearch(Plain)) THEN "search" ELSE "invalid"
        ELSE IF sk = SkelOf(AppleScript, ScriptList) THEN "list"
        ELSE IF sk = SkelOf(AppleScript, ScriptRead(Plain)) THEN "read"
        ELSE IF sk = SkelOf(AppleScript, ScriptCreate(Plain, Plain, Plain)) THEN "create"
        ELSE IF sk = SkelOf(AppleScript, ScriptEdit(Plain, Plain)) THEN "edit"
        ELSE "invalid"

\* ------------------------------------------------------------------------
\* The Notes application, as the scripts address it
\* ------------------------------------------------------------------------

Note(n, b, f) == [name |-> n, body |-> b, folder |-> f]

NotesFolder == <<"Notes">>

\* the folders of account "iCloud"
Folders == {NotesFolder}

NoDoc == [t |-> "none", n |-> 0, items |-> <<>>]
ArrayDoc(items) == [t |-> "array", n |-> 0, items |-> items]
NumberDoc(n) == [t |-> "number", n |-> n, items |-> <<>>]
ObjectDoc(items) == [t |-> "object", n |-> 0, items |-> items]

AllKeys == {"name", "folder", "preview"}
Item(keys, n, f, p) == [t |-> "object", keys |-> keys, name |-> n, folder |-> f, preview |-> p]
NumberItem == [t |-> "number", keys |-> {}, name |-> <<>>, folder |-> <<>>, preview |-> <<>>]

\* what the child wrote: plain text (its chunks), or the JSON text of a document
Text(s) == [kind |-> "text", toks |-> s, doc |-> NoDoc]
Json(d) == [kind |-> "json", toks |-> <<>>, doc |-> d]

Exit(rc, out, err, st) == [rc |-> rc, stdout |-> out, stderr |-> err, store |-> st]

\* osascript prints the script's result and a line end
Printed(s, st) == Exit(0, Text(s \o <<NL>>), <<>>, st)

SyntaxError == <<"syntax error: Expected end of line but found unknown token. (-2741)">>
NoSuchFolder == <<"execution error: Notes got an error: Can't get folder. (-1728)">>
NotAuthorized == <<"execution error: Not authorized to send Apple events to Notes. (-1743)">>

NotFound == <<"Note not found">>

\* every note whose name is nm
Matching(st, nm) == {i \in 1..Len(st) : st[i].name = nm}

First(S) == CHOOSE i \in S : \A j \in S : i <= j

RECURSIVE Listing(_)
Listing(st) ==
    IF st = <<>> THEN <<>>
    ELSE <<"name:">> \o Head(st).name \o <<", folder:">> \o Head(st).folder
         \o <<", creationDate:, modificationDate:">> \o Listing(Tail(st))

\* s.includes(q)
Includes(s, q) == \E i \in 1..(Len(s) + 1) :
    /\ i + Len(q) - 1 <= Len(s)
    /\ SubSeq(s, i, i + Len(q) - 1) = q

PreviewLen == 200

Take(s, n) == SubSeq(s, 1, IF Len(s) < n THEN Len(s) ELSE n)

Hit(note, q) == Includes(Lower(note.name), q) \/ Includes(Lower(note.body), q)

SearchResults(st, q) ==
    LET hits == SelectSeq(st, LAMBDA note : Hit(note, q))
    IN  [i \in 1..Len(hits) |->
            Item(AllKeys, hits[i].name, hits[i].folder, Take(hits[i].body, PreviewLen))]

RunRead(st, nm) ==
    IF Matching(st, nm) # {}
    THEN Printed(st[First(Matching(st, nm))].body, st)
    ELSE Printed(NotFound, st)

RunCreate(st, f, nm, b) ==
    IF f \in Folders
    THEN Printed(nm, Append(st, Note(nm, b, f)))
    ELSE Exit(1, Text(<<>>), NoSuchFolder, st)

RunEdit(st, nm, b) ==
    IF Matching(st, nm) # {}
    THEN LET i == First(Matching(st, nm))
         IN  Printed(<<"Note updated: ">> \o st[i].name, [st EXCEPT ![i].body = b])
    ELSE Printed(NotFound, st)

\* osascript -e script, run against the notes st
Osascript(lang, toks, st) ==
    LET prog == Program(lang, toks)
        lits == Literals(Lex(lang, toks).out)
    IN  CASE prog = "list" -> Printed(Listing(st), st)
          [] prog = "search" -> Exit(0, Json(ArrayDoc(SearchResults(st, lits[2]))), <<>>, st)
          [] prog = "read" -> RunRead(st, lits[2])
          [] prog = "create" -> RunCreate(st, lits[3], lits[4], lits[5])
          [] prog = "edit" -> RunEdit(st, lits[2], lits[3])
          [] OTHER -> Exit(1, Text(<<>>), SyntaxError, st)

\* ------------------------------------------------------------------------
\* call_tool
\* ------------------------------------------------------------------------

Tools == {"list_notes", "search_notes", "read_note", "create_note", "edit_note"}

TextContent(parts) == [type |-> "text", text |-> parts]
Returns(parts) == [raised |-> "none", blocks |-> <<TextContent(parts)>>]
Raises(e) == [raised |-> e, blocks |-> <<>>]

\* arguments.get(k, default)
Get(args, k, default) == IF k \in DOMAIN args THEN args[k] ELSE default

\* the keys call_tool subscripts: arguments[k] raises KeyError when k is absent
Required(name) ==
    CASE name = "search_notes" -> {"query"}
      [] name = "read_note" -> {"name"}
      [] name \in {"create_note", "edit_note"} -> {"name", "body"}
      [] OTHER -> {}

Render(name, args) ==
    CASE name = "list_notes" -> ScriptList
      [] name = "search_notes" -> ScriptSearch(args["query"])
      [] name = "read_note" -> ScriptRead(args["name"])
      [] name = "create_note" ->
            ScriptCreate(args["name"], args["body"], Get(args, "folder", NotesFolder))
      [] OTHER -> ScriptEdit(args["name"], args["body"])

LangOf(name) == IF name = "search_notes" THEN JXA ELSE AppleScript

UnknownTool(name) == Returns(<< <<"Unknown tool: ">>, <<name>> >>)

\* call_tool up to the point where it runs the interpreter
Prepare_ElseIsEdit(name, args) ==
    IF name \in Tools \ {"edit_note"} /\ Required(name) \subseteq DOMAIN args
    THEN [do |-> "run", lang |-> LangOf(name), script |-> Render(name, args)]
    ELSE IF {"name", "body"} \subseteq DOMAIN args
    THEN [do |-> "run", lang |-> AppleScript, script |-> Render("edit_note", args)]
    ELSE [do |-> "done", result |-> Raises("KeyError")]

Prepare(name, args) ==
    IF name \notin Tools THEN [do |-> "done", result |-> UnknownTool(name)]
    ELSE IF ~(Required(name) \subseteq DOMAIN args)
    THEN [do |-> "done", result |-> Raises("KeyError")]
    ELSE [do |-> "run", lang |-> LangOf(name), script |-> Render(name, args)]

\* run_applescript / run_jxa: result.stdout.strip()
Stripped(out) == [out EXCEPT !.toks = Strip(@)]

\* the truth value Python gives a string
Truthy(result) == result.kind = "json" \/ result.toks # <<>>

\* json.loads(result)
JsonLoads(result) ==
    IF result.kind = "json" THEN [ok |-> TRUE, doc |-> result.doc]
    ELSE [ok |-> FALSE, doc |-> NoDoc]

Matches_NoGuard(result) == JsonLoads(result)

\* json.loads(result) if result else []
Matches(result) ==
    IF Truthy(result) THEN JsonLoads(result) ELSE [ok |-> TRUE, doc |-> ArrayDoc(<<>>)]

\* not matches
Falsy(doc) ==
    \/ doc.t \in {"array", "object"} /\ doc.items = <<>>
    \/ doc.t = "number" /\ doc.n = 0
    \/ doc.t = "null"

PreviewShown == 100

RECURSIVE Bullets(_)
Bullets(items) ==
    IF items = <<>> THEN <<>>
    ELSE << <<"* ">>, Head(items).name, <<" (in ">>, Head(items).folder,
            <<")\n  Preview: ">>, Take(Head(items).preview, PreviewShown), <<"...\n\n">> >>
         \o Bullets(Tail(items))

NoResults(query) == << <<"No notes found matching '">>, query, <<"'">> >>

\* str(e) of subprocess.CalledProcessError
CalledProcessErrorStr(script, rc) ==
    << <<"Command '['osascript', '-l', 'JavaScript', '-e', ">>, script,
       <<"]' returned non-zero exit status ">>, <<ToString(rc)>> >>

JSONDecodeErrorStr == << <<"Expecting value: line 1 column 1 (char 0)">> >>

RespondList(args, out) ==
    IF out.rc # 0 THEN Returns(<< <<"Error listing notes: ">>, out.stderr >>)
    ELSE IF Get(args, "folder", <<>>) # <<>>
    THEN Returns(<< <<"Notes in folder '">>, args["folder"], <<"':\n">>, Strip(out.stdout.toks) >>)
    ELSE Returns(<< <<"All notes:\n">>, Strip(out.stdout.toks) >>)

RespondSearch(args, script, out) ==
    IF out.rc # 0
    THEN Returns(<< <<"Error searching notes: ">> >> \o CalledProcessErrorStr(script, out.rc))
    ELSE LET m == Matches(Stripped(out.stdout))
             items == m.doc.items
         IN  IF ~m.ok THEN Returns(<< <<"Error searching notes: ">> >> \o JSONDecodeErrorStr)
             ELSE IF Falsy(m.doc) THEN Returns(NoResults(args["query"]))
             ELSE IF m.doc.t # "array" THEN Raises("TypeError")
             ELSE IF \E i \in 1..Len(items) : items[i].t # "object" THEN Raises("TypeError")
             ELSE IF \E i \in 1..Len(items) : ~(AllKeys \subseteq items[i].keys)
                  THEN Raises("KeyError")
             ELSE Returns(<< <<"Found ">>, <<ToString(Len(items))>>, <<" note(s) matching '">>,
                             args["query"], <<"':\n\n">> >> \o Bullets(items))

RespondRead(args, out) ==
    IF out.rc # 0 THEN Returns(<< <<"Error reading note: ">>, out.stderr >>)
    ELSE Returns(<< <<"Note: ">>, args["name"], <<"\n\n">>, Strip(out.stdout.toks) >>)

RespondCreate(out) ==
    IF out.rc # 0 THEN Returns(<< <<"Error creating note: ">>, out.stderr >>)
    ELSE Returns(<< <<"Successfully created note: ">>, Strip(out.stdout.toks) >>)

RespondEdit(out) ==
    IF out.rc # 0 THEN Returns(<< <<"Error editing note: ">>, out.stderr >>)
    ELSE Returns(<< Strip(out.stdout.toks) >>)

\* call_tool from the interpreter's exit to its return
Respond(name, args, script, out) ==
    CASE name = "list_notes" -> RespondList(args, out)
      [] name = "search_notes" -> RespondSearch(args, script, out)
      [] name = "read_note" -> RespondRead(args, out)
      [] name = "create_note" -> RespondCreate(out)
      [] OTHER -> RespondEdit(out)

\* ------------------------------------------------------------------------
\* Requests a client sends
\* ------------------------------------------------------------------------

NameInputs == {<<"X">>, <<"A", DQ, "B">>, <<BS, DQ>>}
BodyInputs == {<<"Y">>, <<SP, "Y">>, <<"C", DQ>>, <<BS>>}
FolderInputs == {<<"Notes">>, <<"Nope">>, <<"Notes", DQ, HASH>>}
QueryInputs == {<<"X">>, <<"zzz">>, <<SQ>>}

ToolNames == Tools \cup {"delete_note"}

\* marks a parameter the request leaves out
Absent == <<"<absent>">>

ArgsWith(q, n, b, f) ==
    LET v == [k \in {"query", "name", "body", "folder"} |->
                CASE k = "query" -> q [] k = "name" -> n [] k = "body" -> b [] OTHER -> f]
    IN  [k \in {j \in DOMAIN v : v[j] # Absent} |-> v[k]]

Opt(S) == S \cup {Absent}

ArgSets(name) ==
    CASE name = "list_notes" -> {ArgsWith(Absent, Absent, Absent, f) : f \in Opt(FolderInputs)}
      [] name = "search_notes" -> {ArgsWith(q, Absent, Absent, Absent) : q \in Opt(QueryInputs)}
      [] name = "read_note" -> {ArgsWith(Absent, n, Absent, Absent) : n \in Opt(NameInputs)}
      [] name = "create_note" ->
            {ArgsWith(Absent, n, b, f) :
                n \in Opt(NameInputs), b \in Opt(BodyInputs), f \in Opt(FolderInputs)}
      [] name = "edit_note" ->
            {ArgsWith(Absent, n, b, Absent) : n \in Opt(NameInputs), b \in Opt(BodyInputs)}
      [] OTHER -> {ArgsWith(Absent, n, Absent, Absent) : n \in {Absent, <<"X">>}}

OldNote == Note(<<"X">>, <<"old">>, NotesFolder)

InitStores == {<<>>, <<OldNote>>}

\* ------------------------------------------------------------------------
\* The server: one event loop, invocations of call_tool, the child process
\* ------------------------------------------------------------------------

VARIABLES
    store,      \* the notes of the Notes application, in the order it lists them
    pending,    \* invocations received whose call_tool has not started
    cur,        \* the invocation of call_tool the event loop is in, or was last in
    children,   \* osascript child processes alive
    trip        \* the client of SpecTrip: its plan and what it has read

vars == <<store, pending, cur, children, trip>>

Idle == [st |-> "idle"]
NoTrip == [step |-> 0]

Running(name, args, p) ==
    [st |-> "running", tool |-> name, args |-> args, lang |-> p.lang, script |-> p.script]

Returned(name, args, ran, fault, out, result) ==
    [st |-> "returned", tool |-> name, args |-> args, ran |-> ran, fault |-> fault,
     rc |-> out.rc, stdout |-> out.stdout, stderr |-> out.stderr, result |-> result]

NoRun == Exit(0, Text(<<>>), <<>>, <<>>)

LoopFree_Yields == TRUE

\* The event loop can start a call_tool only when it is in none: call_tool has
\* no await, and subprocess.run blocks the loop's thread until the child exits.
LoopFree == cur.st = "idle"

Init ==
    /\ store \in InitStores
    /\ pending = 0
    /\ cur = Idle
    /\ children = 0
    /\ trip = NoTrip

\* the framework reads a tools/call request
Receive ==
    /\ pending < MaxPending
    /\ pending' = pending + 1
    /\ UNCHANGED <<store, cur, children, trip>>

\* call_tool starts, renders its script and starts osascript
StartCall(name, args) ==
    /\ pending > 0
    /\ LoopFree
    /\ Prepare(name, args).do = "run"
    /\ name = "create_note" => Len(store) < MaxNotes
    /\ pending' = pending - 1
    /\ children' = children + 1
    /\ cur' = Running(name, args, Prepare(name, args))
    /\ UNCHANGED <<store, trip>>

\* call_tool starts and ends without running a script
ShortCall(name, args) ==
    /\ pending > 0
    /\ LoopFree
    /\ Prepare(name, args).do = "done"
    /\ pending' = pending - 1
    /\ cur' = Returned(name, args, FALSE, FALSE, NoRun, Prepare(name, args).result)
    /\ UNCHANGED <<store, children, trip>>

\* osascript runs the script and exits; call_tool maps its output and returns
Complete ==
    /\ cur.st = "running"
    /\ LET out == Osascript(cur.lang, cur.script, store)
       IN  /\ store' = out.store
           /\ cur' = Returned(cur.tool, cur.args, TRUE, FALSE, out,
                              Respond(cur.tool, cur.args, cur.script, out))
    /\ children' = children - 1
    /\ UNCHANGED <<pending, trip>>

\* osascript cannot reach Notes and exits nonzero; call_tool maps that and returns
CompleteFault ==
    /\ cur.st = "running"
    /\ LET out == Exit(1, Text(<<>>), NotAuthorized, store)
       IN  cur' = Returned(cur.tool, cur.args, TRUE, TRUE, out,
                           Respond(cur.tool, cur.args, cur.script, out))
    /\ children' = children - 1
    /\ UNCHANGED <<store, pending, trip>>

\* the framework sends the result; the event loop is free again
Deliver ==
    /\ cur.st = "returned"
    /\ cur' = Idle
    /\ UNCHANGED <<store, pending, children, trip>>

Next ==
    \/ Receive
    \/ \E name \in ToolNames : \E args \in ArgSets(name) : StartCall(name, args)
    \/ \E name \in ToolNames : \E args \in ArgSets(name) : ShortCall(name, args)
    \/ Complete
    \/ CompleteFault
    \/ Deliver

Spec == Init /\ [][Next]_vars

\* ------------------------------------------------------------------------
\* SpecMapper: call_tool's mapping of the interpreter's exit, for every exit
\* status and output the child can hand back
\* ------------------------------------------------------------------------

GoodItem == Item(AllKeys, <<"X">>, NotesFolder, <<"old">>)

AnyStdout ==
    {Text(<<>>), Text(<<NL>>), Text(<<"old", NL>>), Text(<<"not json", NL>>),
     Json(ArrayDoc(<<>>)), Json(ArrayDoc(<<GoodItem>>)), Json(ArrayDoc(<<GoodItem, GoodItem>>)),
     Json(ArrayDoc(<<Item({"name"}, <<"X">>, <<>>, <<>>)>>)), Json(ArrayDoc(<<NumberItem>>)),
     Json(NumberDoc(0)), Json(NumberDoc(5)), Json(ObjectDoc(<<>>)),
     Json(ObjectDoc(<<GoodItem>>)), Json([t |-> "null", n |-> 0, items |-> <<>>])}

AnyExit ==
    {Exit(1, Text(<<>>), NotAuthorized, <<>>), Exit(1, Text(<<>>), SyntaxError, <<>>)}
    \cup {Exit(0, o, <<>>, <<>>) : o \in AnyStdout}

MapperInit ==
    /\ store = <<OldNote>>
    /\ pending = 0
    /\ children = 1
    /\ trip = NoTrip
    /\ \E name \in Tools : \E args \in ArgSets(name) :
          /\ Prepare(name, args).do = "run"
          /\ cur = Running(name, args, Prepare(name, args))

\* the child exits with any status and output; call_tool maps it and returns
MapExit(out) ==
    /\ cur.st = "running"
    /\ cur' = Returned(cur.tool, cur.args, TRUE, out.rc # 0, out,
                       Respond(cur.tool, cur.args, cur.script, out))
    /\ children' = children - 1
    /\ UNCHANGED <<store, pending, trip>>

MapperNext == \E out \in AnyExit : MapExit(out)

SpecMapper == MapperInit /\ [][MapperNext]_vars

\* ------------------------------------------------------------------------
\* SpecTrip: a client that calls read_note(x), edit_note(x, y), read_note(x),
\* then edit_note(x, y) and read_note(x) once more, one call after the other
\* ------------------------------------------------------------------------

\* one whole invocation of call_tool on the notes st, the interpreter working
Call(name, args, st) ==
    LET p == Prepare(name, args)
    IN  IF p.do = "done" THEN [result |-> p.result, store |-> st]
        ELSE LET out == Osascript(p.lang, p.script, st)
             IN  [result |-> Respond(name, args, p.script, out), store |-> out.store]

TripStores ==
    InitStores \cup
    {<<OldNote, Note(<<"X">>, <<"other">>, NotesFolder)>>,
     <<Note(<<"A", DQ, "B">>, <<"old">>, NotesFolder)>>,
     <<OldNote, Note(<<"A", DQ, "B">>, <<"old">>, NotesFolder)>>,
     <<Note(<<BS, DQ>>, <<"old">>, NotesFolder)>>}

TripInit ==
    /\ store \in TripStores
    /\ pending = 0
    /\ cur = Idle
    /\ children = 0
    /\ \E x \in NameInputs : \E y \in BodyInputs :
          trip = [step |-> 0, x |-> x, y |-> y,
                  unique |-> Cardinality(Matching(store, x)) = 1, got |-> <<>>]

TripStep(name, args) ==
    LET c == Call(name, args, store)
    IN  /\ store' = c.store
        /\ trip' = [trip EXCEPT !.step = @ + 1, !.got = Append(@, c.result)]
        /\ UNCHANGED <<pending, cur, children>>

TripRead ==
    /\ trip.step \in {0, 2, 4}
    /\ TripStep("read_note", ArgsWith(Absent, trip.x, Absent, Absent))

TripEdit ==
    /\ trip.step \in {1, 3}
    /\ TripStep("edit_note", ArgsWith(Absent, trip.x, trip.y, Absent))

TripNext == TripRead \/ TripEdit

SpecTrip == TripInit /\ [][TripNext]_vars

\* ------------------------------------------------------------------------
\* Properties
\* ------------------------------------------------------------------------

IsText(result) ==
    /\ result.raised = "none"
    /\ Len(result.blocks) = 1
    /\ result.blocks[1].type = "text"

TextOf(result) == result.blocks[1].text

Embeds(result, part) == \E i \in 1..Len(TextOf(result)) : TextOf(result)[i] = part

\* a read_note response whose body part is b
ReadsBody(result, b) ==
    /\ IsText(result)
    /\ Len(TextOf(result)) = 4
    /\ TextOf(result)[1] = <<"Note: ">>
    /\ TextOf(result)[4] = b

\* C1: when x names exactly one note, read_note(x), edit_note(x, y),
\* read_note(x) ends with a response whose body part is exactly y, and so does
\* a read_note(x) after edit_note(x, y) is applied a second time.
C1_RoundTrip ==
    (trip.step >= 3 /\ trip.unique) =>
        /\ ReadsBody(trip.got[3], trip.y)
        /\ trip.step >= 5 => ReadsBody(trip.got[5], trip.y)

\* the program a tool's template is
ProgOf(name) ==
    CASE name = "list_notes" -> "list"
      [] name = "search_notes" -> "search"
      [] name = "read_note" -> "read"
      [] name = "create_note" -> "create"
      [] OTHER -> "edit"

\* the parameter values call_tool substitutes, in the order of ParamLiterals
ParamValues(name, args) ==
    CASE name = "list_notes" -> <<>>
      [] name = "search_notes" -> <<Lower(args["query"]), Lower(args["query"])>>
      [] name = "read_note" -> <<args["name"]>>
      [] name = "create_note" ->
            <<Get(args, "folder", NotesFolder), args["name"], args["body"]>>
      [] OTHER -> <<args["name"], args["body"]>>

\* the literals of a compiled script that stand where the parameters went
ParamLiterals(name, lits) ==
    CASE name = "list_notes" -> <<>>
      [] name = "search_notes" -> <<lits[2], lits[3]>>
      [] name = "read_note" -> <<lits[2]>>
      [] name = "create_note" -> <<lits[3], lits[4], lits[5]>>
      [] OTHER -> <<lits[2], lits[3]>>

\* the script keeps the statements of its template and every parameter is,
\* whole, the value of the string literal it was substituted into
KeepsStructure(name, args, lang, script) ==
    /\ Program(lang, script) = ProgOf(name)
    /\ ParamLiterals(name, Literals(Lex(lang, script).out)) = ParamValues(name, args)

\* C2: in every script call_tool renders, every parameter is escaped so that
\* it stays inside its string literal and the statements of the script are
\* those of the template.
C2_ParametersEscaped ==
    cur.st = "running" => KeepsStructure(cur.tool, cur.args, cur.lang, cur.script)

Has(s, c) == \E i \in 1..Len(s) : s[i] = c

\* C3: a create_note whose name or body holds double quotes is rendered with
\* the structure of a quote-free one: name and body each stay one string
\* literal of the make-new-note statement, and the literal denotes the value.
C3_CreateKeepsQuotes ==
    (/\ cur.st = "running"
     /\ cur.tool = "create_note"
     /\ "folder" \notin DOMAIN cur.args
     /\ Has(cur.args["name"], DQ) \/ Has(cur.args["body"], DQ)
     /\ \A k \in {"name", "body"} : Has(cur.args[k], DQ) \/ ~Has(cur.args[k], BS))
    => KeepsStructure(cur.tool, cur.args, cur.lang, cur.script)

\* C4: for each tool, when the interpreter exits nonzero, call_tool returns
\* one text block that embeds the stderr captured from the interpreter.
C4_ErrorEmbedsStderr ==
    (cur.st = "returned" /\ cur.ran /\ cur.rc # 0) =>
        IsText(cur.result) /\ Embeds(cur.result, cur.stderr)

\* C5: create_note with a folder the account does not have creates no note
\* and returns the text 'Error creating note: ' with the interpreter's
\* diagnostics, never 'Successfully created note'.
C5_MissingFolderFails ==
    [][(/\ cur.st = "running"
        /\ cur.tool = "create_note"
        /\ "folder" \in DOMAIN cur.args
        /\ cur.args["folder"] \notin Folders
        /\ cur'.st = "returned")
       => /\ store' = store
          /\ IsText(cur'.result)
          /\ TextOf(cur'.result) = << <<"Error creating note: ">>, cur'.stderr >>]_vars

\* the interpreter succeeded with an empty JSON array, or with empty text
EmptyOutput(c) ==
    /\ c.rc = 0
    /\ \/ c.stdout = Json(ArrayDoc(<<>>))
       \/ c.stdout.kind = "text" /\ c.stdout.toks \in {<<>>, <<NL>>}

\* C6: when the interpreter succeeds with an empty JSON array or empty text,
\* search_notes returns the 'No notes found matching' text for the query.
C6_EmptySearch ==
    (cur.st = "returned" /\ cur.tool = "search_notes" /\ cur.ran /\ EmptyOutput(cur)) =>
        cur.result = Returns(NoResults(cur.args["query"]))

C6_Witness ==
    /\ cur.st = "returned"
    /\ cur.tool = "search_notes"
    /\ cur.args["query"] = <<"zzz">>
    /\ cur.stdout = Json(ArrayDoc(<<>>))
    /\ cur.result = Returns(NoResults(<<"zzz">>))

\* C7: a tool name outside the catalog gets, whatever the arguments, one text
\* block that contains 'Unknown tool'; nothing is raised and no interpreter
\* is started.
C7_UnknownTool ==
    (cur.st # "idle" /\ cur.tool \notin Tools) =>
        /\ cur.st = "returned"
        /\ ~cur.ran
        /\ IsText(cur.result)
        /\ Embeds(cur.result, <<"Unknown tool: ">>)

C7_Witness ==
    /\ cur.st = "returned"
    /\ cur.tool = "delete_note"
    /\ DOMAIN cur.args # {}
    /\ Embeds(cur.result, <<"Unknown tool: ">>)

\* C8: at most one interpreter child is alive at any time, and an invocation
\* that has started its child returns before another invocation starts.
C8_Sequential ==
    /\ [](children <= 1)
    /\ [][cur.st = "running" =>
            \/ cur'.st = "running" /\ cur' = cur /\ children' = children
            \/ /\ cur'.st = "returned"
               /\ cur'.tool = cur.tool
               /\ cur'.args = cur.args
               /\ children' = 0]_vars

C8_Witness ==
    /\ cur.st = "running"
    /\ children = 1
    /\ pending > 0

\* C9: every invocation, whatever the tool name, the arguments and the
\* interpreter's outcome, returns exactly one text block and raises nothing.
C9_OneTextBlock ==
    cur.st = "returned" => IsText(cur.result)

\* C10: edit_note(name, body) replaces the whole body of the first note of
\* that name and changes no other note; when no note has that name it changes
\* none and returns 'Note not found'.
C10_EditFrame ==
    [][(/\ cur.st = "running"
        /\ cur.tool = "edit_note"
        /\ cur'.st = "returned"
        /\ ~cur'.fault)
       => LET m == Matching(store, cur.args["name"])
          IN  IF m = {}
              THEN store' = store /\ cur'.result = Returns(<<NotFound>>)
              ELSE store' = [store EXCEPT ![First(m)].body = cur.args["body"]]]_vars

====
